---- MODULE Spec2Model ----
(***************************************************************************)
(* vite-bundle-analyzer: the source-map attribution (getSourceMappings),   *)
(* the plugin's generateBundle loop and the report naming of closeBundle.  *)
(*                                                                         *)
(* Text is modelled as the code handles it: the chunk is a sequence of     *)
(* bytes, split at 0x0A, each line decoded from UTF-8 to a sequence of     *)
(* UTF-16 code units; generated columns index code units.                  *)
(***************************************************************************)
EXTENDS Integers, Sequences, FiniteSets, TLC

VARIABLES
  code,          \* getSourceMappings: the chunk's bytes
  rawSourceMap,  \* getSourceMappings: the source-map document
  formatter,     \* getSourceMappings: source -> module id
  hints,         \* getSourceMappings: the returned record, id -> text
  appended,      \* id -> the pieces added by each `s +=`, in order
  mapPc,         \* "input" | "done" | "rejected"
  config,        \* the user config object handed to the config hook
  states,        \* states.hasSetupSourcemapOption, states.lastSourcemapOption
  logger,        \* <<>> until configResolved assigns it
  hookPc,        \* the build's position in the plugin's hooks
  outputBundle,  \* generateBundle: the entries in enumeration order
  bundleIdx,     \* generateBundle: the for-in loop's position
  addModuleCalls,\* the calls of analyzerModule.addModule, in order
  modules,       \* analyzerModule.modules: one node per settled addModule
  callCount,     \* the module-level call counter
  files,         \* the paths that exist in the output directory
  closeCalls,    \* the closeBundle calls of the process, each with its position
  reports,       \* the fsp.writeFile calls made, in order
  build          \* the build under way: its number, its route into the
                 \* plugin and the sourcemap option its user configured

mapVars == <<code, rawSourceMap, formatter, hints, appended, mapPc>>
hookVars == <<config, states, logger, hookPc>>
bundleVars == <<outputBundle, bundleIdx, addModuleCalls, modules>>

closeVars == <<callCount, files, closeCalls, reports>>

vars == <<mapVars, hookVars, bundleVars, closeVars, build>>

----------------------------------------------------------------------------
(* Bounds of the model *)

MaxMappings == 2   \* mappings of one source-map document
MaxBundle == 3     \* entries of one output bundle
MaxCalls == 2      \* closeBundle calls of one process
MaxBuilds == 2     \* builds (or Rollup outputs) of one process

----------------------------------------------------------------------------
(* JavaScript values *)

Null == <<>>                 \* null, for a field of type number | null
Num(n) == <<n>>              \* a number in such a field
IsNumber(v) == Len(v) = 1    \* typeof v === 'number'
NoSource == "null"           \* MappingItem.source of a generated-only mapping
Truthy(s) == s \notin {NoSource, ""}

Min(a, b) == IF a < b THEN a ELSE b
Max(a, b) == IF a > b THEN a ELSE b

\* String.prototype.substring(start, end) on a string of length n: both
\* arguments are clamped to 0..n and swapped when start > end. The result is
\* the code units lo+1..hi (1-based).
SubstringRange(n, start, end) ==
  LET a == Min(Max(start, 0), n)
      b == Min(Max(end, 0), n)
  IN  <<Min(a, b), Max(a, b)>>

Substring(s, start, end) ==
  LET r == SubstringRange(Len(s), start, end) IN SubSeq(s, r[1] + 1, r[2])

RECURSIVE Concat(_)
Concat(ss) == IF ss = <<>> THEN <<>> ELSE Head(ss) \o Concat(Tail(ss))

----------------------------------------------------------------------------
(* TextDecoder (UTF-8): one- and two-byte forms; any other byte decodes to *)
(* U+FFFD                                                                  *)

ReplacementChar == 65533

RECURSIVE Decode(_)
Decode(bs) ==
  IF bs = <<>> THEN <<>>
  ELSE LET b == Head(bs) IN
       IF b < 128 THEN <<b>> \o Decode(Tail(bs))
       ELSE IF /\ b >= 194 /\ b <= 223
               /\ Len(bs) >= 2 /\ bs[2] >= 128 /\ bs[2] <= 191
            THEN <<(b - 192) * 64 + (bs[2] - 128)>> \o Decode(Tail(Tail(bs)))
            ELSE <<ReplacementChar>> \o Decode(Tail(bs))

----------------------------------------------------------------------------
(* splitBytesByNewLine *)

LF == 10

RECURSIVE SplitLoop(_, _, _, _)
SplitLoop(bytes, i, start, result) ==
  \* i and start are the code's i and start, counted from 1
  IF i > Len(bytes)
  THEN IF start <= Len(bytes)
       THEN Append(result, SubSeq(bytes, start, Len(bytes)))
       ELSE result
  ELSE IF bytes[i] = LF
       THEN SplitLoop(bytes, i + 1, i + 1, Append(result, SubSeq(bytes, start, i - 1)))
       ELSE SplitLoop(bytes, i + 1, start, result)

splitBytesByNewLine(bytes) == SplitLoop(bytes, 1, 1, <<>>)

----------------------------------------------------------------------------
(* getStringFromSerializeMappings *)

\* Array.prototype.sort((a, b) => a.generatedColumn - b.generatedColumn):
\* a stable sort on the generated column
RECURSIVE InsertByColumn(_, _)
InsertByColumn(sorted, m) ==
  IF sorted = <<>> THEN <<m>>
  ELSE IF Head(sorted).generatedColumn <= m.generatedColumn
       THEN <<Head(sorted)>> \o InsertByColumn(Tail(sorted), m)
       ELSE <<m>> \o sorted

RECURSIVE SortByColumn(_)
SortByColumn(ms) ==
  IF ms = <<>> THEN <<>>
  ELSE InsertByColumn(SortByColumn(SubSeq(ms, 1, Len(ms) - 1)), ms[Len(ms)])

\* the reduce of lines 42-49: the keys of maapingWithLine in the order they
\* were created, and the entries pushed under each key
RECURSIVE KeysInInsertionOrder(_)
KeysInInsertionOrder(ms) ==
  IF ms = <<>> THEN <<>>
  ELSE LET before == KeysInInsertionOrder(SubSeq(ms, 1, Len(ms) - 1))
           k == ms[Len(ms)].generatedLine
       IN  IF \E i \in 1..Len(before) : before[i] = k THEN before
           ELSE Append(before, k)

EntriesOfLine(ms, line) == SelectSeq(ms, LAMBDA m : m.generatedLine = line)

\* for (const line in maapingWithLine): the keys are array indices (line
\* numbers), which a for-in loop visits in ascending numeric order
RECURSIVE InsertAscending(_, _)
InsertAscending(sorted, k) ==
  IF sorted = <<>> THEN <<k>>
  ELSE IF Head(sorted) <= k THEN <<Head(sorted)>> \o InsertAscending(Tail(sorted), k)
       ELSE <<k>> \o sorted

\* Object.keys(maapingWithLine).sort(): the keys ordered as decimal strings
RECURSIVE Digits(_)
Digits(n) == IF n < 10 THEN <<n>> ELSE Append(Digits(n \div 10), n % 10)

RECURSIVE LexLeq(_, _)
LexLeq(a, b) ==
  IF a = <<>> THEN TRUE
  ELSE IF b = <<>> THEN FALSE
  ELSE IF Head(a) # Head(b) THEN Head(a) < Head(b)
  ELSE LexLeq(Tail(a), Tail(b))

RECURSIVE InsertLexicographic(_, _)
InsertLexicographic(sorted, k) ==
  IF sorted = <<>> THEN <<k>>
  ELSE IF LexLeq(Digits(Head(sorted)), Digits(k))
       THEN <<Head(sorted)>> \o InsertLexicographic(Tail(sorted), k)
       ELSE <<k>> \o sorted

RECURSIVE ForInKeysLexicographic(_)
ForInKeysLexicographic(keys) ==
  IF keys = <<>> THEN <<>>
  ELSE InsertLexicographic(ForInKeysLexicographic(SubSeq(keys, 1, Len(keys) - 1)),
                           keys[Len(keys)])

RECURSIVE ForInKeys(_)
ForInKeys(keys) ==
  IF keys = <<>> THEN <<>>
  ELSE InsertAscending(ForInKeys(SubSeq(keys, 1, Len(keys) - 1)), keys[Len(keys)])

\* bytes[Math.min(l, bytes.length - 1)]: a line index clamped to the last line
LineAtClamped(bytes, line) ==
  IF line >= 1 /\ Len(bytes) >= 1 THEN <<bytes[Min(line, Len(bytes))]>> ELSE <<>>

\* bytes[l] with l = parseInt(line) - 1 (lines 53-54): <<>> when undefined,
\* else <<the line's bytes>> (an empty line is an object, hence truthy)
LineAt(bytes, line) ==
  IF line >= 1 /\ line <= Len(bytes) THEN <<bytes[line]>> ELSE <<>>

\* the end column of lines 66-68, for an entry with a numeric
\* lastGeneratedColumn; next is <<>> or <<the next entry of the line>>
RangeEnd(cur, next) ==
  IF next # <<>> /\ cur.lastGeneratedColumn[1] + 1 = next[1].generatedColumn
  THEN next[1].generatedColumn
  ELSE cur.lastGeneratedColumn[1]

\* a test of the lastGeneratedColumn alone
ToEndOfLineNullOnly(cap, cur) == cur.lastGeneratedColumn = Null

\* line 61: the entry is cut to the end of its line
ToEndOfLine(cap, cur) == cap = 1 \/ cur.lastGeneratedColumn = Null

\* one iteration of the inner loop (lines 59-70): <<>> when nothing is added,
\* else the added piece with the code units [lo, hi) it was cut from
PieceOf(runes, line, mappings, i) ==
  LET cap == Len(mappings)
      cur == mappings[i]
      next == IF i + 1 > cap THEN <<>> ELSE <<mappings[i + 1]>>
      piece(start, end) ==
        LET r == SubstringRange(Len(runes), start, end)
        IN  <<[line |-> line, col |-> cur.generatedColumn, last |-> cur.lastGeneratedColumn,
               lo |-> r[1], hi |-> r[2], text |-> Substring(runes, start, end)]>>
  IN  IF ToEndOfLine(cap, cur)
      THEN piece(cur.generatedColumn, Len(runes))
      ELSE IF IsNumber(cur.lastGeneratedColumn)
           THEN piece(cur.generatedColumn, RangeEnd(cur, next))
           ELSE <<>>

RECURSIVE LinePieces(_, _, _, _)
LinePieces(runes, line, mappings, i) ==
  IF i > Len(mappings) THEN <<>>
  ELSE PieceOf(runes, line, mappings, i) \o LinePieces(runes, line, mappings, i + 1)

RECURSIVE PiecesOfLines(_, _, _)
PiecesOfLines(bytes, mappings, keys) ==
  IF keys = <<>> THEN <<>>
  ELSE LET line == Head(keys) IN
       (IF LineAt(bytes, line) # <<>>
        THEN LinePieces(Decode(LineAt(bytes, line)[1]), line, EntriesOfLine(mappings, line), 1)
        ELSE <<>>)
       \o PiecesOfLines(bytes, mappings, Tail(keys))

\* the pieces `s +=` adds, in order; the returned string is their concatenation
getStringFromSerializeMappings(bytes, mappings) ==
  PiecesOfLines(bytes, mappings, ForInKeys(KeysInInsertionOrder(mappings)))

TextOf(pieces) == Concat([i \in 1..Len(pieces) |-> pieces[i].text])

----------------------------------------------------------------------------
(* getSourceMappings *)

\* a source-map document: one SourceMapConsumer cannot parse, or one that
\* parses to the mappings eachMapping delivers, in ORIGINAL_ORDER
Malformed == [parses |-> FALSE, mappings |-> <<>>]
SourceMap(ms) == [parses |-> TRUE, mappings |-> ms]

\* a callback without the test of mapping.source
KeepsMappingAlways(m) == TRUE

\* consumer.eachMapping callback (lines 86-93): the mappings kept
KeepsMapping(m) == Truthy(m.source)

\* mappingWithId after eachMapping: the ids, and each id's mappings in the
\* order they were delivered
IdsOf(ms, fmt) == {fmt[ms[i].source] : i \in {j \in 1..Len(ms) : KeepsMapping(ms[j])}}

MappingsOfId(ms, fmt, id) ==
  SelectSeq(ms, LAMBDA m : KeepsMapping(m) /\ fmt[m.source] = id)

\* lines 96-102: per id, sort by generated column and reconstruct
PiecesById(bytes, ms, fmt) ==
  [id \in IdsOf(ms, fmt) |->
     getStringFromSerializeMappings(bytes, SortByColumn(MappingsOfId(ms, fmt, id)))]

\* the outcome of getSourceMappings: rejected when the consumer cannot be
\* constructed (line 84, no handler), else the hints record
getSourceMappings(bytes, map, fmt) ==
  IF ~map.parses
  THEN [ok |-> FALSE, pieces |-> << >>, hints |-> << >>]
  ELSE LET p == PiecesById(splitBytesByNewLine(bytes), map.mappings, fmt)
       IN  [ok |-> TRUE, pieces |-> p, hints |-> [id \in DOMAIN p |-> TextOf(p[id])]]

----------------------------------------------------------------------------
(* The plugin's shared state and the user configuration *)

\* the states object: nothing set up, no sourcemap requested
StatesInit == [hasSetupSourcemapOption |-> FALSE, lastSourcemapOption |-> FALSE]

\* a user config: hasBuild is whether config.build is set; sourcemap is
\* "unset" (no such key) or the value of config.build.sourcemap
Config(hasBuild, sourcemap) == [hasBuild |-> hasBuild, sourcemap |-> sourcemap]
NoConfig == Config(FALSE, "unset")
UserConfigs ==
  {NoConfig} \cup {Config(TRUE, sm) : sm \in {"unset", "true", "false", "hidden", "inline"}}

IsBoolean(sm) == sm \in {"true", "false"}

\* a build: via is "vite" (config, configResolved, generateBundle) or
\* "rollup" (the adapter: outputOptions, generateBundle); sourcemap is the
\* option as the user configured it; shared holds while every build of the
\* process handed one and the same config object to the config hook
Build(n, via, sourcemap, shared) ==
  [n |-> n, via |-> via, sourcemap |-> sourcemap, shared |-> shared]
NoBuild == Build(0, "none", "unset", TRUE)

----------------------------------------------------------------------------
(* Inputs of getSourceMappings *)

\* chunk texts: "abc\nde", "a\u00E9b\n" (a two-byte e-acute, a final line
\* feed) and "\nabc" (an empty first line)
Codes ==
  { <<97, 98, 99, 10, 100, 101>>,
    <<97, 195, 169, 98, 10>>,
    <<10, 97, 98, 99>> }

SourceA == "src/a.ts"
SourceB == "./src/b.ts"
Sources == {SourceA, SourceB}

\* the formatter argument: the module id of a source. A formatter is a
\* function of any value; what it gives a missing source is read only if
\* such a mapping is kept.
Formatters ==
  { [s \in Sources \cup {NoSource} |->
       IF s = SourceA THEN "a.ts" ELSE IF s = SourceB THEN "b.ts" ELSE "."],
    [s \in Sources \cup {NoSource} |-> "index.ts"] }

Lines == {1, 2}
Cols == 0..2     \* the columns of the three code units of a sample line

Loc(src, line, col, last) ==
  [source |-> src, generatedLine |-> line, generatedColumn |-> col,
   lastGeneratedColumn |-> last]

\* a mapping of generated-only code carries no source; its position is never read
Locs ==
  {Loc(NoSource, 1, 0, Null)}
  \cup {Loc(src, line, col, Null) : src \in Sources, line \in Lines, col \in Cols}
  \cup {Loc(src, line, cl[1], Num(cl[2])) :
          src \in Sources, line \in Lines,
          cl \in {x \in Cols \X Cols : x[1] <= x[2]}}

MappingLists == UNION {[1..n -> Locs] : n \in 0..MaxMappings}

\* the boundary-adjacency test: the line "abcdefghij" with entries
\* A(col 0, lastCol 4) and B(col 5, lastCol 9), of one module or of two
LineAJ == <<97, 98, 99, 100, 101, 102, 103, 104, 105, 106>>
EntryA(src) == Loc(src, 1, 0, Num(4))
EntryB(src) == Loc(src, 1, 5, Num(9))
AdjacencyMaps ==
  { <<EntryA(SourceA), EntryB(SourceA)>>, <<EntryB(SourceA), EntryA(SourceA)>>,
    <<EntryA(SourceA), EntryB(SourceB)>>, <<EntryB(SourceB), EntryA(SourceA)>> }

\* a ten-line chunk ("a\nb\n...\nj") with entries on lines 2, 9 and 10
TenLines == <<97, 10, 98, 10, 99, 10, 100, 10, 101, 10, 102, 10, 103, 10, 104, 10, 105, 10, 106>>
TenLineLocs == {Loc(SourceA, line, 0, Null) : line \in {2, 9, 10}}
TenLineMaps == {<<x, y>> : x \in TenLineLocs, y \in TenLineLocs}

MapInit ==
  /\ \/ /\ code \in Codes
        /\ rawSourceMap \in {SourceMap(ms) : ms \in MappingLists} \cup {Malformed}
     \/ /\ code = LineAJ
        /\ rawSourceMap \in {SourceMap(ms) : ms \in AdjacencyMaps}
     \/ /\ code = TenLines
        /\ rawSourceMap \in {SourceMap(ms) : ms \in TenLineMaps}
  /\ formatter \in Formatters
  /\ hints = << >>
  /\ appended = << >>
  /\ mapPc = "input"
  /\ config = NoConfig
  /\ states = StatesInit
  /\ logger = <<>>
  /\ hookPc = "idle"
  /\ outputBundle = <<>>
  /\ bundleIdx = 0
  /\ addModuleCalls = <<>>
  /\ modules = <<>>
  /\ callCount = 0
  /\ files = {}
  /\ closeCalls = <<>>
  /\ reports = <<>>
  /\ build = NoBuild

\* await getSourceMappings(code, rawSourceMap, formatter) settles
GetSourceMappingsResolves ==
  /\ mapPc = "input"
  /\ LET r == getSourceMappings(code, rawSourceMap, formatter) IN
       /\ r.ok
       /\ hints' = r.hints
       /\ appended' = r.pieces
  /\ mapPc' = "done"
  /\ UNCHANGED <<code, rawSourceMap, formatter, hookVars, bundleVars, closeVars, build>>

GetSourceMappingsRejects ==
  /\ mapPc = "input"
  /\ ~getSourceMappings(code, rawSourceMap, formatter).ok
  /\ mapPc' = "rejected"
  /\ UNCHANGED <<code, rawSourceMap, formatter, hints, appended, hookVars, bundleVars, closeVars, build>>

MapNext == GetSourceMappingsResolves \/ GetSourceMappingsRejects

SpecMap == MapInit /\ [][MapNext]_vars

----------------------------------------------------------------------------
(* Properties of getSourceMappings *)

MapDone == mapPc = "done"
Delivered == rawSourceMap.mappings
NumLines == Len(splitBytesByNewLine(code))
LineText(line) == Decode(splitBytesByNewLine(code)[line])
Sourced(id) ==
  {i \in 1..Len(Delivered) :
     Truthy(Delivered[i].source) /\ formatter[Delivered[i].source] = id}
PiecesOnLine(id, line) == {i \in 1..Len(appended[id]) : appended[id][i].line = line}

RECURSIVE SumOfLengths(_, _)
SumOfLengths(f, ids) ==
  IF ids = {} THEN 0
  ELSE LET id == CHOOSE x \in ids : TRUE
       IN  Len(f[id]) + SumOfLengths(f, ids \ {id})

\* C1: on the line "abcdefghij" with entries A(col 0, lastCol 4) and
\* B(col 5, lastCol 9), of one module or of two, getSourceMappings
\* reconstructs A as "abcde" and B as "fghij".
C1_BoundaryAdjacency ==
  (MapDone /\ code = LineAJ /\ Delivered \in AdjacencyMaps) =>
    \A id \in DOMAIN appended : \A i \in 1..Len(appended[id]) :
      /\ appended[id][i].col = 0 => appended[id][i].text = <<97, 98, 99, 100, 101>>
      /\ appended[id][i].col = 5 => appended[id][i].text = <<102, 103, 104, 105, 106>>

\* C2: an entry with a numeric lastGeneratedColumn, on a line where its
\* module has at least two entries, whose next entry does not start at
\* lastGeneratedColumn + 1 (or that has no next entry), is attributed the
\* characters generatedColumn..lastGeneratedColumn inclusive.
C2_InclusiveLastColumn ==
  MapDone =>
    \A id \in DOMAIN appended : \A i \in 1..Len(appended[id]) :
      LET p == appended[id][i] IN
        ( /\ IsNumber(p.last)
          /\ Cardinality(PiecesOnLine(id, p.line)) >= 2
          /\ \/ i = Len(appended[id])
             \/ appended[id][i + 1].line # p.line
             \/ appended[id][i + 1].col # p.last[1] + 1 )
        => p.text = Substring(LineText(p.line), p.col, p.last[1] + 1)

\* C6: a mapping whose generatedLine lies beyond the chunk's lines is skipped
\* silently: no piece is cut for it, the call is not rejected, and every
\* entry of the module on an existing line still yields its piece, cut from
\* that line.
C6_MissingLineSkipped ==
  /\ (mapPc = "rejected" => ~rawSourceMap.parses)
  /\ MapDone =>
       \A id \in DOMAIN appended :
         /\ \A i \in 1..Len(appended[id]) :
              LET p == appended[id][i] IN
                /\ p.line \in 1..NumLines
                /\ p.text = SubSeq(LineText(p.line), p.lo + 1, p.hi)
         /\ Len(appended[id])
              = Cardinality({i \in Sourced(id) : Delivered[i].generatedLine <= NumLines})

C6_Witness ==
  /\ MapDone
  /\ \E id \in DOMAIN appended :
       /\ \E i \in Sourced(id) : Delivered[i].generatedLine > NumLines
       /\ \E i \in 1..Len(appended[id]) : appended[id][i].text # <<>>

\* C7: a mapping without a source creates no module id and is appended to no
\* module's entries; the returned record has a key exactly for the ids that
\* received a sourced mapping.
C7_SourcelessDropped ==
  MapDone =>
    /\ DOMAIN hints = {formatter[Delivered[i].source] :
                         i \in {j \in 1..Len(Delivered) : Truthy(Delivered[j].source)}}
    /\ DOMAIN appended = DOMAIN hints
    /\ \A id \in DOMAIN appended : Len(appended[id]) <= Cardinality(Sourced(id))

C7_Witness ==
  /\ MapDone
  /\ \E i \in 1..Len(Delivered) : ~Truthy(Delivered[i].source)
  /\ \E i \in 1..Len(Delivered) : Truthy(Delivered[i].source)
  /\ Cardinality(DOMAIN hints) = 1

\* C8: the modules' reconstructed texts partition part of the chunk's text:
\* their lengths sum to at most the length of the chunk's text.
C8_AttributionWithinChunk ==
  MapDone => SumOfLengths(hints, DOMAIN hints) <= Len(Decode(code))

\* C9: a module's text is the concatenation of its ranges in ascending
\* generated-line order and, within a line, ascending generated-column
\* order, whatever order the mappings were delivered in.
C9_LineThenColumnOrder ==
  MapDone =>
    \A id \in DOMAIN appended :
      /\ hints[id] = TextOf(appended[id])
      /\ \A i \in 1..Len(appended[id]) : \A j \in 1..Len(appended[id]) :
           i < j =>
             \/ appended[id][i].line < appended[id][j].line
             \/ /\ appended[id][i].line = appended[id][j].line
                /\ appended[id][i].col <= appended[id][j].col

C9_Witness ==
  /\ MapDone
  /\ Len(Delivered) = 2
  /\ Delivered[1].generatedLine = 10
  /\ Delivered[2].generatedLine = 9
  /\ \E id \in DOMAIN appended : Len(appended[id]) = 2

\* C11: an entry whose lastGeneratedColumn is null, or that is the only
\* entry of its module on its line, is attributed the text from its
\* generatedColumn to the end of the line, whatever lastGeneratedColumn it
\* carries and whatever entries follow it.
C11_RestOfLine ==
  MapDone =>
    \A id \in DOMAIN appended : \A i \in 1..Len(appended[id]) :
      LET p == appended[id][i] IN
        (p.last = Null \/ Cardinality(PiecesOnLine(id, p.line)) = 1)
        => p.text = SubSeq(LineText(p.line), p.col + 1, Len(LineText(p.line)))

C11_Witness ==
  /\ MapDone
  /\ \E id \in DOMAIN appended :
       /\ Len(appended[id]) = 2
       /\ appended[id][1].line = 1 /\ appended[id][1].last = Num(0)
       /\ Len(appended[id][1].text) = 3
       /\ appended[id][2].line = 2 /\ appended[id][2].last = Null
       /\ Len(appended[id][2].text) = 2

----------------------------------------------------------------------------
(* File names and validateChunk *)

\* file names are sequences of characters
NameAJs == <<"a", ".", "j", "s">>
NameBJs == <<"l", "/", "b", ".", "j", "s">>
NameWJs == <<"w", ".", "j", "s">>
NameCss == <<"c", ".", "c", "s", "s">>
NameDotJs == <<".", "j", "s">>
DotMap == <<".", "m", "a", "p">>
DotJs == <<".", "j", "s">>

Last(S) == CHOOSE x \in S : \A y \in S : y <= x

\* path.extname: from the last "." of the base name, "" when the base name
\* has no "." or only a leading one
ExtName(name) ==
  LET slashes == {i \in 1..Len(name) : name[i] = "/"}
      base == IF slashes = {} THEN name ELSE SubSeq(name, Last(slashes) + 1, Len(name))
      dots == {i \in 1..Len(base) : base[i] = "."}
  IN  IF dots = {} \/ Last(dots) = 1 \/ base = <<".", ".">> THEN <<>>
      ELSE SubSeq(base, Last(dots), Len(base))

\* fileName.includes(ext)
expectFileIncludes(fileName, ext) ==
  \E i \in 1..Len(fileName) :
    i + Len(ext) - 1 <= Len(fileName) /\ SubSeq(fileName, i, i + Len(ext) - 1) = ext

expectFile(fileName, ext) == ExtName(fileName) = ext

\* an entry of the output bundle, keyed by its file name; map is the chunk's
\* map property and source the asset's content (<<>> when absent); present
\* is FALSE once the property was deleted from the bundle
Chunk(name, map) ==
  [fileName |-> name, type |-> "chunk", map |-> map, source |-> <<>>, present |-> TRUE]
Asset(name, source) ==
  [fileName |-> name, type |-> "asset", map |-> <<>>, source |-> source, present |-> TRUE]

\* possiblePath in allChunks
InBundle(allChunks, name) ==
  \E i \in 1..Len(allChunks) : allChunks[i].present /\ allChunks[i].fileName = name

\* [pass, sourcemapFileName], the latter <<>> for undefined
validateChunk(chunk, allChunks) ==
  IF expectFile(chunk.fileName, DotJs)
  THEN LET possiblePath == chunk.fileName \o DotMap
       IN  IF InBundle(allChunks, possiblePath) THEN <<TRUE, <<possiblePath>>>>
           ELSE <<TRUE, <<>>>>
  ELSE <<FALSE, <<>>>>

----------------------------------------------------------------------------
(* analyzerModule.addModule: run the decoder on the chunk and its source    *)
(* map and add the chunk's node; a chunk without a source map, or whose     *)
(* source map cannot be parsed, is added with no module attributed          *)

ChunkCode == <<97, 98, 99>>
ChunkFormatter == [s \in Sources \cup {NoSource} |-> IF s = SourceA THEN "a.ts" ELSE "b.ts"]
ValidDoc == SourceMap(<<Loc(SourceA, 1, 0, Null)>>)

EntryOf(allChunks, name) ==
  allChunks[CHOOSE i \in 1..Len(allChunks) : allChunks[i].fileName = name]

\* the source-map document addModule reads: <<>> or <<document>>
SourceMapOfChunk(bundle, sourcemapFileName, allChunks) ==
  IF sourcemapFileName # <<>> THEN EntryOf(allChunks, sourcemapFileName[1]).source
  ELSE bundle.map

\* the chunk's node: how its source map fared and the size attributed to
\* each module
Node(bundle, sourceMap, sizes) ==
  [fileName |-> bundle.fileName, sourceMap |-> sourceMap, attributed |-> sizes]

\* the failure of the decoder reaches the caller
AddModulePropagates(bundle, sourcemapFileName, allChunks) ==
  LET doc == SourceMapOfChunk(bundle, sourcemapFileName, allChunks) IN
    IF doc = <<>> THEN [ok |-> TRUE, node |-> Node(bundle, "none", << >>)]
    ELSE LET r == getSourceMappings(ChunkCode, doc[1], ChunkFormatter) IN
           IF r.ok
           THEN [ok |-> TRUE,
                 node |-> Node(bundle, "parsed", [id \in DOMAIN r.hints |-> Len(r.hints[id])])]
           ELSE [ok |-> FALSE, node |-> Node(bundle, "malformed", << >>)]

AddModule(bundle, sourcemapFileName, allChunks) ==
  LET doc == SourceMapOfChunk(bundle, sourcemapFileName, allChunks) IN
    IF doc = <<>> THEN [ok |-> TRUE, node |-> Node(bundle, "none", << >>)]
    ELSE LET r == getSourceMappings(ChunkCode, doc[1], ChunkFormatter) IN
           [ok |-> TRUE,
            node |-> IF r.ok
                     THEN Node(bundle, "parsed", [id \in DOMAIN r.hints |-> Len(r.hints[id])])
                     ELSE Node(bundle, "malformed", << >>)]

----------------------------------------------------------------------------
(* One build: config, configResolved, generateBundle *)

BundleEntries ==
  {Chunk(NameAJs, m) : m \in {<<>>, <<ValidDoc>>, <<Malformed>>}}
  \cup {Asset(NameAJs \o DotMap, <<d>>) : d \in {ValidDoc, Malformed}}
  \cup {Chunk(NameBJs, m) : m \in {<<>>, <<Malformed>>}}
  \cup {Asset(NameWJs, <<>>), Asset(NameCss, <<>>), Asset(NameDotJs, <<>>)}

\* the keys of a bundle are its file names: no two entries share one
Bundles ==
  {b \in UNION {[1..n -> BundleEntries] : n \in 0..MaxBundle} :
     \A i \in 1..Len(b) : \A j \in 1..Len(b) : i # j => b[i].fileName # b[j].fileName}

BundleInit ==
  /\ code = <<>>
  /\ rawSourceMap = Malformed
  /\ formatter = ChunkFormatter
  /\ hints = << >>
  /\ appended = << >>
  /\ mapPc = "idle"
  /\ config \in UserConfigs
  /\ states = StatesInit
  /\ logger = <<>>
  /\ hookPc = "config"
  /\ outputBundle \in Bundles
  /\ bundleIdx = 0
  /\ addModuleCalls = <<>>
  /\ modules = <<>>
  /\ callCount = 0
  /\ files = {}
  /\ closeCalls = <<>>
  /\ reports = <<>>
  /\ build = Build(1, "vite", config.sourcemap, TRUE)

\* the option is read on every call
FirstSetupAlways(st) == TRUE

\* line 93: the sourcemap option was not set up yet
FirstSetup(st) == ~st.hasSetupSourcemapOption

\* the config hook (lines 90-117). logger.warn on an unassigned logger throws
\* and the hook ends there.
ConfigHook ==
  /\ hookPc = "config"
  /\ LET first == FirstSetup(states)
         built == IF first THEN Config(TRUE, config.sourcemap) ELSE config
         reads == first /\ built.sourcemap # "unset"
         last == IF IsBoolean(built.sourcemap) THEN built.sourcemap = "true"
                 ELSE built.sourcemap = "hidden"
         throws == reads /\ built.sourcemap = "inline" /\ logger = <<>>
     IN  /\ states' = [hasSetupSourcemapOption |-> TRUE,
                       lastSourcemapOption |-> IF reads THEN last ELSE states.lastSourcemapOption]
         /\ IF throws
            THEN /\ config' = built
                 /\ hookPc' = "configFailed"
            ELSE /\ config' = IF built.hasBuild
                              THEN Config(TRUE, IF IsBoolean(built.sourcemap) THEN "true" ELSE "hidden")
                              ELSE built
                 /\ hookPc' = "configResolved"
  /\ UNCHANGED <<logger, mapVars, bundleVars, closeVars, build>>

\* the configResolved hook (lines 118-142)
ConfigResolved ==
  /\ hookPc = "configResolved"
  /\ logger' = <<"config.logger">>
  /\ hookPc' = "generateBundle"
  /\ UNCHANGED <<config, states, mapVars, bundleVars, closeVars, build>>

\* generateBundle up to the loop (lines 143-149)
GenerateBundleStart ==
  /\ hookPc = "generateBundle"
  /\ bundleIdx' = 1
  /\ hookPc' = "loop"
  /\ UNCHANGED <<config, states, logger, mapVars, outputBundle, addModuleCalls, modules, closeVars, build>>

\* for-in does not visit a property deleted before its turn
LoopSkipsDeleted ==
  /\ hookPc = "loop"
  /\ bundleIdx <= Len(outputBundle)
  /\ ~outputBundle[bundleIdx].present
  /\ bundleIdx' = bundleIdx + 1
  /\ UNCHANGED <<hookVars, mapVars, outputBundle, addModuleCalls, modules, closeVars, build>>

\* an entry validateChunk does not pass (lines 150-152, 156-157)
LoopVisitsOther ==
  /\ hookPc = "loop"
  /\ bundleIdx <= Len(outputBundle)
  /\ outputBundle[bundleIdx].present
  /\ ~validateChunk(outputBundle[bundleIdx], outputBundle)[1]
  /\ bundleIdx' = bundleIdx + 1
  /\ UNCHANGED <<hookVars, mapVars, outputBundle, addModuleCalls, modules, closeVars, build>>

\* lines 150-154: the call of addModule, awaited
LoopCallsAddModule ==
  /\ hookPc = "loop"
  /\ bundleIdx <= Len(outputBundle)
  /\ outputBundle[bundleIdx].present
  /\ LET v == validateChunk(outputBundle[bundleIdx], outputBundle) IN
       /\ v[1]
       /\ addModuleCalls' = Append(addModuleCalls,
            [fileName |-> outputBundle[bundleIdx].fileName, sourcemapFileName |-> v[2]])
  /\ hookPc' = "await"
  /\ UNCHANGED <<config, states, logger, mapVars, outputBundle, bundleIdx, modules, closeVars, build>>

\* lines 159 and 163: the sourcemap output removed after the chunk was added
RemoveSourcemap(allChunks, i, sourcemapFileName) ==
  IF sourcemapFileName # <<>>
  THEN [k \in 1..Len(allChunks) |->
          IF allChunks[k].fileName = sourcemapFileName[1]
          THEN [allChunks[k] EXCEPT !.present = FALSE] ELSE allChunks[k]]
  ELSE IF allChunks[i].type = "chunk"
       THEN [allChunks EXCEPT ![i].map = <<>>]
       ELSE allChunks

\* the awaited addModule settles: rejected, generateBundle rejects; resolved,
\* the iteration goes on with lines 156-166
AddModuleSettles ==
  /\ hookPc = "await"
  /\ LET call == addModuleCalls[Len(addModuleCalls)]
         r == AddModule(outputBundle[bundleIdx], call.sourcemapFileName, outputBundle)
     IN  IF r.ok
         THEN /\ modules' = Append(modules, r.node)
              /\ outputBundle' = IF ~states.lastSourcemapOption
                                 THEN RemoveSourcemap(outputBundle, bundleIdx, call.sourcemapFileName)
                                 ELSE outputBundle
              /\ bundleIdx' = bundleIdx + 1
              /\ hookPc' = "loop"
         ELSE /\ hookPc' = "failed"
              /\ UNCHANGED <<modules, outputBundle, bundleIdx>>
  /\ UNCHANGED <<config, states, logger, mapVars, addModuleCalls, closeVars, build>>

\* the loop ends and generateBundle resolves
GenerateBundleEnds ==
  /\ hookPc = "loop"
  /\ bundleIdx > Len(outputBundle)
  /\ hookPc' = "done"
  /\ UNCHANGED <<config, states, logger, mapVars, bundleVars, closeVars, build>>

BundleNext ==
  \/ ConfigHook
  \/ ConfigResolved
  \/ GenerateBundleStart
  \/ LoopSkipsDeleted
  \/ LoopVisitsOther
  \/ LoopCallsAddModule
  \/ AddModuleSettles
  \/ GenerateBundleEnds

SpecBundle == BundleInit /\ [][BundleNext]_vars

----------------------------------------------------------------------------
(* Properties of generateBundle *)

HasJsExtension(entry) == ExtName(entry.fileName) = DotJs

\* the call due to an entry with extension .js, given the bundle's file names
ExpectedCall(entry, allChunks) ==
  [fileName |-> entry.fileName,
   sourcemapFileName |->
     IF \E k \in 1..Len(allChunks) : allChunks[k].fileName = entry.fileName \o DotMap
     THEN <<entry.fileName \o DotMap>> ELSE <<>>]

\* the calls due to the first n entries, in enumeration order
ExpectedCalls(n) ==
  LET js == SelectSeq(SubSeq(outputBundle, 1, n), HasJsExtension)
  IN  [k \in 1..Len(js) |-> ExpectedCall(js[k], outputBundle)]

\* C3: a chunk whose source map cannot be parsed does not abort the run:
\* generateBundle never rejects, it ends with a node for every .js entry,
\* and the failing chunk's node has no module attributed.
C3_MalformedMapDoesNotAbort ==
  /\ hookPc # "failed"
  /\ hookPc = "done" =>
       /\ Len(modules) = Len(ExpectedCalls(Len(outputBundle)))
       /\ \A k \in 1..Len(modules) :
            modules[k].sourceMap = "malformed" => modules[k].attributed = << >>

C3_Witness ==
  /\ hookPc = "done"
  /\ \E i \in 1..Len(modules) : \E j \in 1..Len(modules) :
       i < j /\ modules[i].sourceMap = "malformed"

\* C10: the entries with extension .js are handed to addModule in
\* enumeration order, each once, one call at a time, with the companion
\* '<fileName>.map' when the bundle has one; no other entry is handed over.
C10_AddModuleInBundleOrder ==
  /\ hookPc = "loop" =>
       /\ addModuleCalls = ExpectedCalls(bundleIdx - 1)
       /\ Len(modules) = Len(addModuleCalls)
  /\ hookPc = "await" =>
       /\ addModuleCalls = ExpectedCalls(bundleIdx)
       /\ Len(modules) = Len(addModuleCalls) - 1
  /\ hookPc = "done" =>
       /\ addModuleCalls = ExpectedCalls(Len(outputBundle))
       /\ Len(modules) = Len(addModuleCalls)
  /\ \A k \in 1..Len(modules) : modules[k].fileName = addModuleCalls[k].fileName

C10_Witness ==
  /\ hookPc = "done"
  /\ Len(addModuleCalls) = 2
  /\ addModuleCalls[1].sourcemapFileName # <<>>
  /\ addModuleCalls[2].sourcemapFileName = <<>>
  /\ \E k \in 1..Len(outputBundle) : ~HasJsExtension(outputBundle[k])

----------------------------------------------------------------------------
(* closeBundle: the report's path and the call counter *)

DigitChars == <<"0", "1", "2", "3", "4", "5", "6", "7", "8", "9">>

\* `${callCount}`: the decimal numeral of a number
Decimal(n) == [i \in 1..Len(Digits(n)) |-> DigitChars[Digits(n)[i] + 1]]

DefaultFileName == "stats"
DefaultPort == 8888

Ext(mode) == IF mode = "json" THEN "json" ELSE "html"

\* path.join(defaultWd, `${output}.${ext}`), within the output directory
BasePath(output, mode) == <<output, ".", Ext(mode)>>

\* path.join(defaultWd, `${output}-${callCount}.${ext}`)
CountedPath(output, n, mode) == <<output, "-">> \o Decimal(n) \o <<".", Ext(mode)>>

\* lines 178-181 with the counter's value n: the path the report goes to
ReportPath(output, n, mode, onDisk) ==
  IF BasePath(output, mode) \in onDisk THEN CountedPath(output, n, mode)
  ELSE BasePath(output, mode)

Modes == {"server", "static", "json"}
preferLivingServer(mode) == mode \in {"server", "static"}
preferSilent(mode) == mode \in {"json", "static"}

\* reports left in the output directory by earlier runs
EarlierReports ==
  {BasePath(DefaultFileName, "json"), CountedPath(DefaultFileName, 1, "json"),
   BasePath(DefaultFileName, "html")}

CloseInit ==
  /\ code = <<>>
  /\ rawSourceMap = Malformed
  /\ formatter = ChunkFormatter
  /\ hints = << >>
  /\ appended = << >>
  /\ mapPc = "idle"
  /\ config = NoConfig
  /\ states = StatesInit
  /\ logger = <<>>
  /\ hookPc = "idle"
  /\ outputBundle = <<>>
  /\ bundleIdx = 0
  /\ addModuleCalls = <<>>
  /\ modules = <<>>
  /\ callCount = 0
  /\ files \in SUBSET EarlierReports
  /\ closeCalls = <<>>
  /\ reports = <<>>
  /\ build = NoBuild

Report(c, mode, path) == [call |-> c, mode |-> mode, path |-> path]

\* a closeBundle call of a plugin instance with options mode and
\* openAnalyzer, up to its first await or its return (lines 170-185, 193-195)
CloseBundleStart(mode, open) ==
  /\ Len(closeCalls) < MaxCalls
  /\ LET c == Len(closeCalls) + 1
         n == callCount + 1
         p == ReportPath(DefaultFileName, n, mode, files)
         call == [mode |-> mode, openAnalyzer |-> open, n |-> n,
                  p |-> IF preferSilent(mode) THEN <<p>> ELSE <<>>,
                  baseExisted |-> preferSilent(mode) /\ BasePath(DefaultFileName, mode) \in files,
                  pExisted |-> preferSilent(mode) /\ p \in files,
                  writing |-> mode = "json",
                  port |-> <<>>,
                  pc |-> CASE mode = "json" -> "returned"
                           [] mode = "static" -> "renderStatic"
                           [] OTHER -> "render"]
     IN  /\ closeCalls' = Append(closeCalls, call)
         /\ callCount' = IF mode = "server" THEN n - 1 ELSE n
         /\ reports' = IF mode = "json" THEN Append(reports, Report(c, mode, p)) ELSE reports
  /\ UNCHANGED <<files, mapVars, hookVars, bundleVars, build>>

\* static mode, renderView resolved (lines 185-195): the report's write is
\* started and not awaited
RenderViewResolvesStatic(c) ==
  /\ c \in 1..Len(closeCalls)
  /\ closeCalls[c].pc = "renderStatic"
  /\ reports' = Append(reports, Report(c, "static", closeCalls[c].p[1]))
  /\ IF ~closeCalls[c].openAnalyzer
     THEN /\ closeCalls' = [closeCalls EXCEPT ![c].pc = "returned", ![c].writing = TRUE]
          /\ UNCHANGED callCount
     ELSE /\ closeCalls' = [closeCalls EXCEPT ![c].pc = "render", ![c].writing = TRUE]
          /\ callCount' = callCount - 1
  /\ UNCHANGED <<files, mapVars, hookVars, bundleVars, build>>

\* renderView resolved (lines 195-203): createServer is called with the
\* default port
RenderViewResolves(c) ==
  /\ c \in 1..Len(closeCalls)
  /\ closeCalls[c].pc = "render"
  /\ closeCalls' = [closeCalls EXCEPT ![c].pc = "createServer",
                                      ![c].port = <<DefaultPort + callCount>>]
  /\ UNCHANGED <<callCount, files, reports, mapVars, hookVars, bundleVars, build>>

\* createServer resolved (lines 204-210)
CreateServerResolves(c) ==
  /\ c \in 1..Len(closeCalls)
  /\ closeCalls[c].pc = "createServer"
  /\ closeCalls' = [closeCalls EXCEPT ![c].pc = "returned"]
  /\ callCount' = callCount + 1
  /\ UNCHANGED <<files, reports, mapVars, hookVars, bundleVars, build>>

\* a started fsp.writeFile creates the file
WriteFileCompletes(c) ==
  /\ c \in 1..Len(closeCalls)
  /\ closeCalls[c].writing
  /\ files' = files \cup {closeCalls[c].p[1]}
  /\ closeCalls' = [closeCalls EXCEPT ![c].writing = FALSE]
  /\ UNCHANGED <<callCount, reports, mapVars, hookVars, bundleVars, build>>

CloseNext ==
  \/ \E mode \in Modes : \E open \in BOOLEAN :
       (mode # "static" => open) /\ CloseBundleStart(mode, open)
  \/ \E c \in 1..MaxCalls : RenderViewResolvesStatic(c)
  \/ \E c \in 1..MaxCalls : RenderViewResolves(c)
  \/ \E c \in 1..MaxCalls : CreateServerResolves(c)
  \/ \E c \in 1..MaxCalls : WriteFileCompletes(c)

SpecClose == CloseInit /\ [][CloseNext]_vars

----------------------------------------------------------------------------
(* Properties of closeBundle *)

\* C4: in json and static mode closeBundle never overwrites an existing
\* file: when <outputName>.<ext> exists as it runs, it writes to
\* <outputName>-<n>.<ext>, n the call counter, a path that did not exist
\* before the call.
C4_NeverOverwrites ==
  \A c \in 1..Len(closeCalls) :
    LET call == closeCalls[c] IN
      (preferSilent(call.mode) /\ call.baseExisted) =>
        /\ call.p = <<CountedPath(DefaultFileName, call.n, call.mode)>>
        /\ ~call.pExisted

\* C5: two closeBundle calls of one process that write a report of the same
\* mode, with the same directory and output name, write to different paths.
C5_DistinctReportPaths ==
  \A i \in 1..Len(reports) : \A j \in 1..Len(reports) :
    (i # j /\ reports[i].mode = reports[j].mode) => reports[i].path # reports[j].path

\* C12: the call counter is monotonically increasing: no step of a
\* closeBundle call, in any mode, lowers it.
C12_CallCountMonotonic == [][callCount' >= callCount]_vars

\* C16: in server mode without an analyzerPort option no two closeBundle
\* calls of one process request the same default port from createServer.
C16_DistinctDefaultPorts ==
  \A i \in 1..Len(closeCalls) : \A j \in 1..Len(closeCalls) :
    ( /\ i # j
      /\ closeCalls[i].mode = "server" /\ closeCalls[j].mode = "server"
      /\ closeCalls[i].port # <<>> /\ closeCalls[j].port # <<>> )
    => closeCalls[i].port # closeCalls[j].port

----------------------------------------------------------------------------
(* Several builds of one process, through Vite or through the Rollup       *)
(* adapter; the states object and the plugin instance outlive a build      *)

\* output bundles of a build with source maps on: a chunk with its
\* companion map file, a chunk with a map property only, a style sheet
BuildBundles ==
  { <<Chunk(NameAJs, <<ValidDoc>>), Asset(NameAJs \o DotMap, <<ValidDoc>>)>>,
    <<Chunk(NameBJs, <<ValidDoc>>)>>,
    <<Asset(NameCss, <<>>)>> }

\* the output options a Rollup user sets: sourcemap unset, a boolean,
\* 'hidden' or 'inline'
OutputOptions == {Config(TRUE, sm) : sm \in {"unset", "true", "false", "hidden", "inline"}}

BuildsInit ==
  /\ code = <<>>
  /\ rawSourceMap = Malformed
  /\ formatter = ChunkFormatter
  /\ hints = << >>
  /\ appended = << >>
  /\ mapPc = "idle"
  /\ config = NoConfig
  /\ states = StatesInit
  /\ logger = <<>>
  /\ hookPc = "start"
  /\ outputBundle = <<>>
  /\ bundleIdx = 0
  /\ addModuleCalls = <<>>
  /\ modules = <<>>
  /\ callCount = 0
  /\ files = {}
  /\ closeCalls = <<>>
  /\ reports = <<>>
  /\ build = NoBuild

BuildOver == hookPc \in {"start", "done"}

\* Vite starts a build with a config object of its own
StartViteBuild(userConfig, bundle) ==
  /\ BuildOver
  /\ build.n < MaxBuilds
  /\ config' = userConfig
  /\ build' = Build(build.n + 1, "vite", userConfig.sourcemap, build.n = 0)
  /\ hookPc' = "config"
  /\ outputBundle' = bundle
  /\ bundleIdx' = 0
  /\ addModuleCalls' = <<>>
  /\ modules' = <<>>
  /\ UNCHANGED <<states, logger, mapVars, closeVars>>

\* a build is started with the config object of the build before, as the
\* plugin left it
StartViteBuildSameConfig(bundle) ==
  /\ BuildOver
  /\ build.n >= 1 /\ build.n < MaxBuilds
  /\ build.via = "vite"
  /\ build' = Build(build.n + 1, "vite", build.sourcemap, build.shared)
  /\ hookPc' = "config"
  /\ outputBundle' = bundle
  /\ bundleIdx' = 0
  /\ addModuleCalls' = <<>>
  /\ modules' = <<>>
  /\ UNCHANGED <<config, states, logger, mapVars, closeVars>>

\* Rollup starts an output of the adapted plugin
StartRollupOutput(outputOptions, bundle) ==
  /\ BuildOver
  /\ build.n < MaxBuilds
  /\ config' = outputOptions
  /\ build' = Build(build.n + 1, "rollup", outputOptions.sourcemap, FALSE)
  /\ hookPc' = "outputOptions"
  /\ outputBundle' = bundle
  /\ bundleIdx' = 0
  /\ addModuleCalls' = <<>>
  /\ modules' = <<>>
  /\ UNCHANGED <<states, logger, mapVars, closeVars>>

\* the adapter's outputOptions hook (adapter.ts lines 15-34); returning
\* nothing leaves the output's options as they are
OutputOptionsHook ==
  /\ hookPc = "outputOptions"
  /\ IF states.hasSetupSourcemapOption
     THEN UNCHANGED <<config, states>>
     ELSE /\ states' =
               [hasSetupSourcemapOption |-> TRUE,
                lastSourcemapOption |->
                  IF config.sourcemap = "unset" THEN states.lastSourcemapOption
                  ELSE IF IsBoolean(config.sourcemap) THEN config.sourcemap = "true"
                  ELSE config.sourcemap = "hidden"]
          /\ config' = Config(TRUE, IF config.sourcemap = "true" THEN "true" ELSE "hidden")
  /\ hookPc' = "generateBundle"
  /\ UNCHANGED <<logger, mapVars, bundleVars, closeVars, build>>

BuildsNext ==
  \/ \E userConfig \in UserConfigs : \E bundle \in BuildBundles :
       StartViteBuild(userConfig, bundle)
  \/ \E bundle \in BuildBundles : StartViteBuildSameConfig(bundle)
  \/ \E outputOptions \in OutputOptions : \E bundle \in BuildBundles :
       StartRollupOutput(outputOptions, bundle)
  \/ OutputOptionsHook
  \/ BundleNext

SpecBuilds == BuildsInit /\ [][BuildsNext]_vars

----------------------------------------------------------------------------
(* Properties of the sourcemap set-up *)

\* the user asked for source maps: build.sourcemap true or 'hidden'
Requested == build.sourcemap \in {"true", "hidden"}

\* the hook of the build under way has returned
HookReturned == hookPc \in {"configResolved", "generateBundle", "loop", "await", "done"}

SourcemapEnabled == config.hasBuild /\ config.sourcemap \in {"true", "hidden"}

AllSourcemapsKept ==
  \A k \in 1..Len(outputBundle) :
    /\ outputBundle[k].present
    /\ outputBundle[k].type = "chunk" => outputBundle[k].map # <<>>

SourcemapsRemoved ==
  \A k \in 1..Len(outputBundle) :
    HasJsExtension(outputBundle[k]) =>
      IF \E j \in 1..Len(outputBundle) :
           outputBundle[j].fileName = outputBundle[k].fileName \o DotMap
      THEN ~InBundle(outputBundle, outputBundle[k].fileName \o DotMap)
      ELSE outputBundle[k].type = "chunk" => outputBundle[k].map = <<>>

\* C13: generateBundle removes a build's sourcemap output if and only if
\* that build's own configuration did not request sourcemaps, whatever the
\* earlier builds of the process were configured with.
C13_RemovalFollowsOwnConfig ==
  hookPc = "done" =>
    /\ Requested => AllSourcemapsKept
    /\ ~Requested => SourcemapsRemoved

\* C14: when one config object is passed to the config hook again and
\* again, states.lastSourcemapOption keeps the value the user configured
\* (true for true or 'hidden', false otherwise), not what the plugin wrote
\* into config.build.sourcemap.
C14_LastOptionIsTheUsers ==
  (build.via = "vite" /\ build.shared /\ hookPc # "config") =>
    states.lastSourcemapOption = Requested

C14_Witness ==
  /\ build.n = 2 /\ build.via = "vite" /\ build.shared
  /\ build.sourcemap = "false"
  /\ config.sourcemap = "true"
  /\ hookPc = "done"
  /\ ~states.lastSourcemapOption

\* C15: after the config hook returns, config.build.sourcemap is true or
\* 'hidden', on the first call and on every later one, for configs with or
\* without a build section.
C15_ConfigEnablesSourcemap ==
  (build.via = "vite" /\ HookReturned) => SourcemapEnabled

\* C17: logger is never used before configResolved assigned it.
C17_LoggerAssignedBeforeUse == ~(hookPc = "configFailed" /\ logger = <<>>)

\* C18: after the adapter's outputOptions hook ran for an output, its
\* sourcemap option is true or 'hidden', for every output of the process.
C18_OutputOptionsEnablesSourcemap ==
  (build.via = "rollup" /\ HookReturned) => SourcemapEnabled

====
